---- MODULE Spec2Model ----
(***************************************************************************)
(* Model of shared-iter (src/src/lib.rs): an iterator wrapped by share()   *)
(* is owned by a SharedIterCore behind Arc<Mutex<..>>; every SharedIter    *)
(* cursor owns the receiving end of an mpsc channel whose sender is kept   *)
(* in the core's Slab.  A pull of the source broadcasts the value to every *)
(* registered sender.                                                      *)
(***************************************************************************)
EXTENDS Integers, Sequences, FiniteSets, TLC

\* ---------------------------------------------------------------- bounds
MaxCursors == 2     \* cursors alive at the same time
MaxLen     == 2     \* longest source sequence
MaxPulls   == 3     \* calls of the source's next()

Handles == 1..MaxCursors
Root    == 1
NoOne   == 0
Boom    == -1       \* an item the source panics on instead of yielding it

VARIABLES
    source,     \* the wrapped iterator's full sequence (I)
    iterPos,    \* SharedIterCore.iter: how many items it has yielded
    entries,    \* SharedIterCore.sender: Slab entries, key k at index k+1
    slabNext,   \* SharedIterCore.sender: Slab's head of the vacant list
    mutex,      \* Mutex: the cursor holding the guard, or NoOne
    poisoned,   \* Mutex: a holder panicked
    strong,     \* Arc strong count
    pc,         \* per cursor: where its thread is
    id,         \* SharedIter.id
    queue,      \* the channel behind SharedIter.receiver
    rxAlive,    \* SharedIter.receiver not yet destroyed
    val,        \* local `val` of SharedIterCore::next
    out,        \* history: values returned as Some by the cursor's next()
    nones,      \* history: how many next() calls returned None, up to 2
    start,      \* history: iterPos when the cursor was registered
    pullLog,    \* history: result of every iter.next() (0 = None, else the position asked for)
    highest,    \* history: the highest position any cursor's next() has returned
    peak,       \* history: the most cursors that were live at the same time
    overlapped  \* history: a next() was called while another cursor was inside next()

vars == <<source, iterPos, entries, slabNext, mutex, poisoned, strong, pc, id,
          queue, rxAlive, val, out, nones, start, pullLog, highest, peak,
          overlapped>>

\* ---------------------------------------------------------------- helpers
\* the sources: (1..=k) for every length k up to n, as in the tests
Sources(n) == {[i \in 1..k |-> i] : k \in 0..n}

\* the sources that yield 1, .., k-1 and panic when asked for item k
PanicSources(n) == {[i \in 1..k |-> IF i = k THEN Boom ELSE i] : k \in 1..n}

\* a history counter that stops counting at 2
Count2(n) == IF n < 2 THEN n + 1 ELSE 2

Occupied(c) == [tag |-> "Occupied", val |-> c]
Vacant(k)   == [tag |-> "Vacant", next |-> k]

\* Slab::insert: returns <<key, entries', next'>>
SlabInsert(ents, nxt, c) ==
    IF nxt = Len(ents)
    THEN <<nxt, Append(ents, Occupied(c)), nxt + 1>>
    ELSE <<nxt, [ents EXCEPT ![nxt + 1] = Occupied(c)], ents[nxt + 1].next>>

\* Slab::remove: <<ok, entries', next'>>; ok = FALSE is the "invalid key" panic
SlabRemove(ents, nxt, key) ==
    IF key < Len(ents) /\ ents[key + 1].tag = "Occupied"
    THEN <<TRUE, [ents EXCEPT ![key + 1] = Vacant(nxt)], key>>
    ELSE <<FALSE, ents, nxt>>

\* Slab::iter: the occupied keys, visited in increasing key order
OccupiedKeys(ents) == {k \in 0..(Len(ents) - 1) : ents[k + 1].tag = "Occupied"}

Senders(ents) == {ents[k + 1].val : k \in OccupiedKeys(ents)}

\* new_recv that creates the channel but never stores the sender
NewRecvKeyUnregistered(ents, nxt, c) == <<nxt, ents, nxt>>

\* SharedIterCore::new_recv
NewRecvKey(ents, nxt, c) == SlabInsert(ents, nxt, c)

\* remove_recv that ignores the id and removes the first slot
RemoveRecvFirstSlot(ents, nxt, key) == SlabRemove(ents, nxt, 0)

\* remove_recv that leaves the sender in the slab
RemoveRecvNothing(ents, nxt, key) == <<TRUE, ents, nxt>>

\* SharedIterCore::remove_recv
RemoveRecv(ents, nxt, key) == SlabRemove(ents, nxt, key)

\* SharedIterCore::send: the senders reached before the first failing send,
\* and whether a send failed
FirstDeadKey(ents, alive) ==
    LET dead == {k \in OccupiedKeys(ents) : ~alive[ents[k + 1].val]}
    IN  IF dead = {} THEN Len(ents)
        ELSE CHOOSE k \in dead : \A j \in dead : k <= j

\* send that returns after the first sender
SendTargetsFirstOnly(ents, alive) ==
    LET ks == OccupiedKeys(ents)
    IN  IF ks = {} THEN {}
        ELSE {ents[(CHOOSE k \in ks : \A j \in ks : k <= j) + 1].val}

SendTargets(ents, alive) ==
    {ents[k + 1].val : k \in {j \in OccupiedKeys(ents) : j < FirstDeadKey(ents, alive)}}

SendFails(ents, alive) == FirstDeadKey(ents, alive) < Len(ents)

Live(c)  == pc[c] \notin {"none", "fields", "panicked"}
Pos(c)   == start[c] + Len(out[c])

Max(a, b) == IF a >= b THEN a ELSE b

\* the cursor's thread is inside next(), past the first try_recv
InNext(c) == pc[c] \in {"lock", "send", "recv"}

\* ---------------------------------------------------------------- Init
\* share(): SharedIter::new registers the root cursor in a fresh core
InitCore ==
    /\ iterPos = 0
    /\ entries = NewRecvKey(<<>>, 0, Root)[2]
    /\ slabNext = NewRecvKey(<<>>, 0, Root)[3]
    /\ mutex = NoOne
    /\ poisoned = FALSE
    /\ strong = 1
    /\ pc = [c \in Handles |-> IF c = Root THEN "idle" ELSE "none"]
    /\ id = [c \in Handles |-> NewRecvKey(<<>>, 0, Root)[1]]
    /\ queue = [c \in Handles |-> <<>>]
    /\ rxAlive = [c \in Handles |-> c = Root]
    /\ val = [c \in Handles |-> 0]
    /\ out = [c \in Handles |-> <<>>]
    /\ nones = [c \in Handles |-> 0]
    /\ start = [c \in Handles |-> 0]
    /\ pullLog = <<>>
    /\ highest = 0
    /\ peak = 1
    /\ overlapped = FALSE

\* share() of a source that never panics
Init == source \in Sources(MaxLen) /\ InitCore

\* share() of a source that panics at its last item
PanicInit == source \in PanicSources(MaxLen) /\ InitCore

\* ---------------------------------------------------------------- next()
\* pulls made or about to be made
PullsStarted == Len(pullLog) + Cardinality({d \in Handles : pc[d] = "lock"})

\* SharedIter::next, lines 101-104: the first try_recv
NextTryRecv(c) ==
    /\ pc[c] = "idle"
    /\ queue[c] = <<>> => PullsStarted < MaxPulls
    /\ IF queue[c] # <<>>
       THEN /\ out' = [out EXCEPT ![c] = Append(@, Head(queue[c]))]
            /\ queue' = [queue EXCEPT ![c] = Tail(@)]
            /\ highest' = Max(highest, Pos(c) + 1)
            /\ UNCHANGED <<pc, nones>>
       ELSE IF c \notin Senders(entries)
       THEN /\ nones' = [nones EXCEPT ![c] = Count2(@)]
            /\ UNCHANGED <<pc, out, queue, highest>>
       ELSE /\ pc' = [pc EXCEPT ![c] = "lock"]
            /\ UNCHANGED <<out, queue, nones, highest>>
    /\ overlapped' = (overlapped \/ \E d \in Handles \ {c} : InNext(d))
    /\ UNCHANGED <<source, iterPos, entries, slabNext, mutex, poisoned, strong,
                   id, rxAlive, val, start, pullLog, peak>>

\* an iterator that skips the item after the one it returns
IterNextSkip(src, p) ==
    IF p < Len(src)
    THEN <<TRUE, src[p + 1], IF p + 2 <= Len(src) THEN p + 2 ELSE p + 1>>
    ELSE <<FALSE, 0, p>>

\* an iterator that returns its item without advancing
IterNextRepeat(src, p) ==
    IF p < Len(src) THEN <<TRUE, src[p + 1], p>> ELSE <<FALSE, 0, p>>

\* the source iterator's next() on a fused finite sequence:
\* <<is Some, item, position after>>
IterNext(src, p) ==
    IF p < Len(src) THEN <<TRUE, src[p + 1], p + 1>> ELSE <<FALSE, 0, p>>

\* a lock that never waits
LockFreeAlways == TRUE

\* Mutex::lock: the guard can be taken
LockFree == mutex = NoOne

\* line 105, self.inner.lock().unwrap(), then SharedIterCore::next, line 48:
\* self.iter.next(); on None the guard is released as the statement ends; a
\* panic of the source unwinds through the guard, which poisons the mutex
CorePull(c) ==
    /\ pc[c] = "lock"
    /\ LockFree
    /\ IF poisoned
       THEN /\ pc' = [pc EXCEPT ![c] = "panicked"]
            /\ UNCHANGED <<val, iterPos, pullLog, mutex, poisoned>>
       ELSE LET r == IterNext(source, iterPos)
            IN  IF r[1] /\ r[2] = Boom
                THEN /\ poisoned' = TRUE
                     /\ pc' = [pc EXCEPT ![c] = "panicked"]
                     /\ UNCHANGED <<val, iterPos, pullLog, mutex>>
                ELSE /\ iterPos' = r[3]
                     /\ pullLog' = Append(pullLog, IF r[1] THEN iterPos + 1 ELSE 0)
                     /\ UNCHANGED poisoned
                     /\ IF r[1]
                        THEN /\ val' = [val EXCEPT ![c] = r[2]]
                             /\ pc' = [pc EXCEPT ![c] = "send"]
                             /\ mutex' = c
                        ELSE /\ pc' = [pc EXCEPT ![c] = "recv"]
                             /\ UNCHANGED <<val, mutex>>
    /\ UNCHANGED <<source, entries, slabNext, strong, id, queue,
                   rxAlive, out, nones, start, highest, peak, overlapped>>

\* a send after which the guard is never released
CoreSendKeepsGuard(c) ==
    /\ pc[c] = "send"
    /\ queue' = [d \in Handles |->
                    IF d \in SendTargets(entries, rxAlive)
                    THEN Append(queue[d], val[c]) ELSE queue[d]]
    /\ pc' = [pc EXCEPT ![c] = "recv"]
    /\ val' = [val EXCEPT ![c] = 0]
    /\ UNCHANGED <<source, iterPos, entries, slabNext, strong, id, rxAlive,
                   out, nones, start, pullLog, mutex, poisoned, highest, peak,
                   overlapped>>

\* SharedIterCore::send + expect, lines 38-40 and 49; then the guard is released
CoreSend(c) ==
    /\ pc[c] = "send"
    /\ queue' = [d \in Handles |->
                    IF d \in SendTargets(entries, rxAlive)
                    THEN Append(queue[d], val[c]) ELSE queue[d]]
    /\ IF SendFails(entries, rxAlive)
       THEN poisoned' = TRUE /\ pc' = [pc EXCEPT ![c] = "panicked"]
       ELSE UNCHANGED poisoned /\ pc' = [pc EXCEPT ![c] = "recv"]
    /\ mutex' = IF mutex = c THEN NoOne ELSE mutex
    /\ val' = [val EXCEPT ![c] = 0]
    /\ UNCHANGED <<source, iterPos, entries, slabNext, strong, id, rxAlive,
                   out, nones, start, pullLog, highest, peak, overlapped>>

\* line 106: self.receiver.try_recv().ok()
NextRecv2(c) ==
    /\ pc[c] = "recv"
    /\ IF queue[c] # <<>>
       THEN /\ out' = [out EXCEPT ![c] = Append(@, Head(queue[c]))]
            /\ queue' = [queue EXCEPT ![c] = Tail(@)]
            /\ highest' = Max(highest, Pos(c) + 1)
            /\ UNCHANGED nones
       ELSE /\ nones' = [nones EXCEPT ![c] = Count2(@)]
            /\ UNCHANGED <<out, queue, highest>>
    /\ pc' = [pc EXCEPT ![c] = "idle"]
    /\ UNCHANGED <<source, iterPos, entries, slabNext, mutex, poisoned, strong,
                   id, rxAlive, val, start, pullLog, peak, overlapped>>

\* ---------------------------------------------------------------- clone()
Unborn == {n \in Handles : pc[n] = "none"}

\* Clone::clone, lines 85-90: lock, new_recv, unlock, Arc::clone; the new
\* cursor is named by the lowest free handle
Clone(c) ==
    /\ pc[c] = "idle"
    /\ Unborn # {}
    /\ LockFree
    /\ IF poisoned
       THEN /\ pc' = [pc EXCEPT ![c] = "panicked"]
            /\ UNCHANGED <<entries, slabNext, strong, id, queue, rxAlive, start,
                           peak>>
       ELSE LET n == CHOOSE m \in Unborn : \A k \in Unborn : m <= k
                r == NewRecvKey(entries, slabNext, n)
            IN  /\ entries' = r[2]
                /\ slabNext' = r[3]
                /\ id' = [id EXCEPT ![n] = r[1]]
                /\ queue' = [queue EXCEPT ![n] = <<>>]
                /\ rxAlive' = [rxAlive EXCEPT ![n] = TRUE]
                /\ start' = [start EXCEPT ![n] = iterPos]
                /\ strong' = strong + 1
                /\ pc' = [pc EXCEPT ![n] = "idle"]
                /\ peak' = Max(peak, Cardinality({d \in Handles : Live(d)}) + 1)
    /\ UNCHANGED <<source, iterPos, mutex, poisoned, val, out, nones, pullLog,
                   highest, overlapped>>

\* ---------------------------------------------------------------- drop
\* Drop::drop, line 114: lock, remove_recv(self.id), unlock; the cursor
\* cannot be used any more and its histories end
Drop(c) ==
    /\ pc[c] = "idle"
    /\ LockFree
    /\ IF poisoned
       THEN /\ pc' = [pc EXCEPT ![c] = "panicked"]
            /\ UNCHANGED <<entries, slabNext, poisoned>>
       ELSE LET r == RemoveRecv(entries, slabNext, id[c])
            IN  /\ entries' = r[2]
                /\ slabNext' = r[3]
                /\ poisoned' = ~r[1]
                /\ pc' = [pc EXCEPT ![c] = IF r[1] THEN "fields" ELSE "panicked"]
    /\ out' = [out EXCEPT ![c] = <<>>]
    /\ nones' = [nones EXCEPT ![c] = 0]
    /\ start' = [start EXCEPT ![c] = 0]
    /\ UNCHANGED <<source, iterPos, mutex, strong, id, queue, rxAlive, val,
                   pullLog, highest, peak, overlapped>>

\* after Drop::drop the fields are destroyed: the Arc reference and the
\* receiver; the handle is free again
DropFields(c) ==
    /\ pc[c] = "fields"
    /\ rxAlive' = [rxAlive EXCEPT ![c] = FALSE]
    /\ queue' = [queue EXCEPT ![c] = <<>>]
    /\ strong' = strong - 1
    /\ pc' = [pc EXCEPT ![c] = "none"]
    /\ id' = [id EXCEPT ![c] = 0]
    /\ UNCHANGED <<source, iterPos, entries, slabNext, mutex, poisoned, val,
                   out, nones, start, pullLog, highest, peak, overlapped>>

\* ---------------------------------------------------------------- spec
Next ==
    \E c \in Handles :
        \/ NextTryRecv(c)
        \/ CorePull(c)
        \/ CoreSend(c)
        \/ NextRecv2(c)
        \/ Clone(c)
        \/ Drop(c)
        \/ DropFields(c)

Spec == Init /\ [][Next]_vars

\* every thread keeps being scheduled: a cursor whose next step stays possible
\* (inside next() or drop, or at a mutex that stays free) takes it
Fairness ==
    \A c \in Handles :
        WF_vars(CorePull(c) \/ CoreSend(c) \/ NextRecv2(c) \/ DropFields(c))

FairSpec == Spec /\ Fairness

\* the same program over a source that panics
PanicSpec == PanicInit /\ [][Next]_vars

\* ---------------------------------------------------------------- claims
IsPrefix(a, b) == Len(a) <= Len(b) /\ \A i \in 1..Len(a) : a[i] = b[i]

Suffix(b, n) == [i \in 1..(Len(b) - n) |-> b[n + i]]

\* C1: every cursor registered before the first value was pulled has
\* returned, so far, exactly the first values of the source in source order
ConcurrentConsistency ==
    \A c \in Handles : Live(c) /\ start[c] = 0 => IsPrefix(out[c], source)

\* two cursors registered before the first pull both took the whole of a
\* longest source
ConcurrentConsistencyWitness ==
    /\ Len(source) = MaxLen
    /\ \E c, d \in Handles :
          /\ c # d /\ Live(c) /\ Live(d)
          /\ start[c] = 0 /\ start[d] = 0
          /\ out[c] = source /\ out[d] = source

\* C2 (as stated): a cursor that has been drained returned the whole source
FullReplay ==
    \A c \in Handles : Live(c) /\ nones[c] > 0 => out[c] = source

\* C2 (amended): a cursor registered when n values had been pulled starts at
\* position n; once drained it has returned the source from element n+1 on
ReplayFromRegistration ==
    \A c \in Handles :
        Live(c) =>
            /\ out[c] # <<>> =>
                  start[c] < Len(source) /\ out[c][1] = source[start[c] + 1]
            /\ nones[c] > 0 =>
                  start[c] <= Len(source) /\ out[c] = Suffix(source, start[c])

\* a clone made after a pull was drained and got a proper suffix
ReplayFromRegistrationWitness ==
    \E c \in Handles :
        /\ c # Root /\ Live(c) /\ start[c] > 0
        /\ nones[c] > 0 /\ out[c] # <<>>
        /\ out[c] # source

\* values delivered so far: the value held between pull and send is not yet
Delivered == iterPos - Cardinality({c \in Handles : pc[c] = "send"})

\* C3: what a cursor returned and what is queued for it is one contiguous run
\* of source positions, in order, and two cursors agree on every position
SameOrderNoGaps ==
    /\ \A c \in Handles :
          Live(c) =>
              /\ Pos(c) + Len(queue[c]) <= Len(source)
              /\ \A i \in 1..Len(out[c]) : out[c][i] = source[start[c] + i]
              /\ \A i \in 1..Len(queue[c]) : queue[c][i] = source[Pos(c) + i]
              /\ c \in Senders(entries) => Pos(c) + Len(queue[c]) = Delivered
    /\ \A c, d \in Handles :
          Live(c) /\ Live(d) =>
              \A i \in 1..Len(out[c]) : \A j \in 1..Len(out[d]) :
                  start[c] + i = start[d] + j => out[c][i] = out[d][j]

\* two cursors registered at different positions both read position MaxLen
SameOrderNoGapsWitness ==
    \E c, d \in Handles :
        /\ Live(c) /\ Live(d) /\ start[c] < start[d]
        /\ out[c] = source /\ out[d] # <<>>
        /\ Pos(c) = Pos(d)

\* the positions that pulls returned, in the order of the pulls
PulledPositions == SelectSeq(pullLog, LAMBDA x : x # 0)

\* C4 (as stated): the source was pulled as often as positions were produced
PullsEqualProduced == Len(pullLog) = iterPos

\* C4 (amended): the pulls that returned a value returned positions
\* 1, 2, .., iterPos, each once and in order; every other pull came after
\* the source was exhausted and returned end-of-sequence
SingleProduction ==
    /\ PulledPositions = [i \in 1..iterPos |-> i]
    /\ \A i \in 1..Len(pullLog) :
          pullLog[i] = 0 =>
              /\ iterPos = Len(source)
              /\ \A j \in i..Len(pullLog) : pullLog[j] = 0

\* a longest source was pulled to its end and then pulled again twice
SingleProductionWitness ==
    /\ source # <<>>
    /\ Len(pullLog) >= Len(source) + 2
    /\ \E c, d \in Handles : c # d /\ Live(c) /\ Live(d) /\ nones[c] > 0 /\ nones[d] > 0

\* C5: once a next() of a cursor has returned None, the cursor returns no
\* further value
EndIsPermanent ==
    [][\A c \in Handles :
          nones[c] > 0 /\ Live(c)' => out'[c] = out[c] /\ nones'[c] >= nones[c]]_vars

\* a cursor returned None twice after a value while another cursor is live
EndIsPermanentWitness ==
    \E c, d \in Handles :
        /\ c # d /\ Live(c) /\ Live(d)
        /\ nones[c] >= 2 /\ out[c] # <<>>

\* C6: a drop removes only the dropped cursor's slot; the queues, histories
\* and ids of the others and the source are untouched, the mutex is not
\* poisoned, and nothing is queued for the dropped cursor afterwards
DropFrame ==
    [][\A c \in Handles :
          /\ pc[c] = "idle" /\ pc'[c] # "idle" /\ pc'[c] # "lock" =>
                /\ pc'[c] = "fields"
                /\ ~poisoned'
                /\ OccupiedKeys(entries') = OccupiedKeys(entries) \ {id[c]}
                /\ Senders(entries') = Senders(entries) \ {c}
                /\ iterPos' = iterPos /\ source' = source
                /\ \A d \in Handles \ {c} :
                      /\ queue'[d] = queue[d] /\ out'[d] = out[d]
                      /\ id'[d] = id[d] /\ pc'[d] = pc[d]
          /\ pc[c] \in {"fields", "none"} => Len(queue'[c]) <= Len(queue[c])]_vars

\* the clone next to the root is gone, its slot is vacant, and the root has
\* drained a longest source
DropFrameWitness ==
    /\ Len(source) = MaxLen
    /\ \E c \in Handles \ {Root} : pc[c] = "none"
    /\ \E k \in 1..Len(entries) : entries[k].tag = "Vacant"
    /\ Live(Root) /\ out[Root] = source /\ nones[Root] > 0

\* the cursor's thread is not inside next(), clone() or drop
AtRest(c) == pc[c] \in {"none", "idle"}

\* C7: every started operation completes (its cursor is at rest again and
\* again), the mutex is released again and again, so that a clone() or drop
\* waiting for it can go on, and its holder is never itself waiting for it
NoDeadlock ==
    /\ \A c \in Handles : []<>AtRest(c)
    /\ []<>(mutex = NoOne)
    /\ [](mutex # NoOne => pc[mutex] = "send")
    /\ [](\A c \in Handles : pc[c] # "panicked")

\* a cursor waits for the mutex while another one holds it
NoDeadlockWitness ==
    \E c, d \in Handles :
        /\ c # d /\ mutex = c /\ pc[c] = "send"
        /\ pc[d] = "lock" /\ queue[d] = <<>>

\* C8 (as stated, for the window W = 1, where the state itself shows that no
\* cursor was ever behind another: no cursor has been dropped and none has
\* returned from next() yet): at most 1 value is queued for any cursor
BoundedByWindow ==
    (/\ \A k \in 1..Len(entries) : entries[k].tag = "Occupied"
     /\ \A c \in Handles : Live(c) => start[c] = 0 /\ out[c] = <<>> /\ nones[c] = 0)
    => \A c \in Handles : Live(c) => Len(queue[c]) <= 1

\* C9: at most one pull is between iter.next() and its delivery, its cursor
\* holds the mutex, and until the value is delivered to every registered
\* cursor no other pull, registration or deregistration takes place
ExclusivePull ==
    [][/\ Cardinality({c \in Handles : pc'[c] = "send"}) <= 1
       /\ \A c \in Handles :
             /\ pc'[c] = "send" => mutex' = c
             /\ pc[c] = "send" =>
                   /\ iterPos' = iterPos /\ pullLog' = pullLog
                   /\ entries' = entries /\ slabNext' = slabNext
                   /\ pc'[c] = "send" =>
                         \A d \in Handles : Len(queue'[d]) <= Len(queue[d])
                   /\ pc'[c] # "send" =>
                         \A d \in Senders(entries) :
                             queue'[d] = Append(queue[d], val[c])]_vars

\* a pull is held back before its delivery while the other cursor, at rest,
\* could clone or drop
ExclusivePullWitness ==
    \E c, d \in Handles :
        /\ c # d /\ pc[c] = "send" /\ pc[d] = "idle"
        /\ iterPos = MaxLen

\* C10 (as stated): a cursor that asked for a position another cursor has
\* produced in the meantime takes it from its queue without pulling
FirstArrivalPulls ==
    [][\A c \in Handles :
          pc[c] = "lock" /\ queue[c] # <<>> /\ pc'[c] # "lock" =>
              pullLog' = pullLog]_vars

\* C11 (as stated): once the mutex is poisoned, no operation that a cursor
\* starts returns a value or end-of-sequence
FailureIsUniform ==
    [][\A c \in Handles :
          poisoned /\ pc[c] = "idle" =>
              Len(out'[c]) <= Len(out[c]) /\ nones'[c] <= nones[c]]_vars

\* the cursors that exist: created and not yet fully destroyed
Existing == {c \in Handles : pc[c] # "none"}

\* the senders in the slab are those of the live cursors, the Arc counts the
\* cursors that exist, and every live cursor is served by the core
CountsMatch ==
    /\ Cardinality(OccupiedKeys(entries)) = Cardinality({c \in Handles : Live(c)})
    /\ strong = Cardinality(Existing)
    /\ strong = 0 <=> Existing = {}
    /\ \A c \in Handles : Live(c) => c \in Senders(entries) /\ strong > 0

\* C12: the core's count of registered cursors is the number of live
\* cursors, clone() raises it by one and drop lowers it by one, and whoever
\* was dropped, a remaining cursor that pulls while the source has a value
\* gets that value
CoreOutlivesCursors ==
    [][/\ CountsMatch /\ CountsMatch'
       /\ \A c \in Handles :
             /\ pc[c] = "none" /\ pc'[c] # "none" =>
                   /\ Cardinality(OccupiedKeys(entries')) =
                         Cardinality(OccupiedKeys(entries)) + 1
                   /\ strong' = strong + 1
             /\ pc[c] = "idle" /\ pc'[c] = "fields" =>
                   Cardinality(OccupiedKeys(entries')) =
                       Cardinality(OccupiedKeys(entries)) - 1
             /\ pc[c] = "fields" /\ pc'[c] = "none" => strong' = strong - 1
             /\ pc[c] = "lock" /\ pc'[c] # "lock" /\ iterPos < Len(source) =>
                   pc'[c] = "send" /\ iterPos' = iterPos + 1
             /\ pc[c] = "send" /\ pc'[c] # "send" =>
                   pc'[c] = "recv" /\ queue'[c] = Append(queue[c], val[c])]_vars

\* the root is gone and the only cursor left has pulled the last value of a
\* longest source
CoreOutlivesCursorsWitness ==
    /\ pc[Root] = "none" /\ strong = 1
    /\ \E c \in Handles \ {Root} : pc[c] = "send" /\ val[c] = MaxLen

\* the step is a next() of c returning None
ReturnsNone(c) ==
    \/ pc[c] = "recv" /\ pc'[c] = "idle" /\ out'[c] = out[c]
    \/ pc[c] = "idle" /\ pc'[c] = "idle" /\ nones'[c] # nones[c]

\* C13: a next() returns None only after a pull returned end-of-sequence and
\* when the cursor has returned every value produced since its registration;
\* a next() that finds a value queued returns it, and a pull made while the
\* source has a value ends in a value for the caller
NoSpuriousEnd ==
    [][\A c \in Handles :
          /\ ReturnsNone(c) =>
                /\ \E i \in 1..Len(pullLog) : pullLog[i] = 0
                /\ iterPos = Len(source)
                /\ Pos(c) = iterPos /\ queue[c] = <<>>
          /\ pc[c] = "idle" /\ queue[c] # <<>> /\ pc'[c] \notin {"idle", "fields"} =>
                FALSE
          /\ pc[c] = "idle" /\ queue[c] # <<>> /\ queue'[c] # queue[c]
                /\ Len(queue'[c]) <= Len(queue[c]) =>
                out'[c] = Append(out[c], Head(queue[c]))
          /\ pc[c] = "recv" /\ queue[c] # <<>> /\ pc'[c] # "recv" =>
                out'[c] = Append(out[c], Head(queue[c]))
          /\ pc[c] = "lock" /\ pc'[c] # "lock" /\ iterPos < Len(source) =>
                pc'[c] = "send"
          /\ pc[c] = "send" /\ pc'[c] # "send" =>
                pc'[c] = "recv" /\ queue'[c] # <<>>]_vars

\* a cursor returned None after the whole of a longest source while values
\* are still queued for another cursor
NoSpuriousEndWitness ==
    /\ Len(source) = MaxLen
    /\ \E c, d \in Handles :
          /\ c # d /\ Live(c) /\ Live(d)
          /\ nones[c] > 0 /\ Pos(c) = MaxLen
          /\ queue[d] # <<>> /\ nones[d] = 0

\* C14: every sender in the slab has a live receiver, so no send fails, the
\* expect never panics and the mutex is never poisoned
DeliveryNeverFails ==
    /\ \A k \in OccupiedKeys(entries) : rxAlive[entries[k + 1].val]
    /\ ~SendFails(entries, rxAlive)
    /\ SendTargets(entries, rxAlive) = Senders(entries)
    /\ ~poisoned
    /\ \A c \in Handles : pc[c] # "panicked"

\* a value is about to be sent while another cursor is between its
\* deregistration and the destruction of its receiver
DeliveryNeverFailsWitness ==
    \E c, d \in Handles :
        /\ pc[c] = "send" /\ pc[d] = "fields" /\ rxAlive[d]
        /\ d \notin Senders(entries)

\* C15: live cursors hold distinct ids, the occupied slots are exactly the
\* ids of the live cursors, each slot holds the sender of the cursor with
\* that id, and removing a live cursor's id removes its sender and no other
IdsConsistent ==
    /\ \A c, d \in Handles : Live(c) /\ Live(d) /\ c # d => id[c] # id[d]
    /\ OccupiedKeys(entries) = {id[c] : c \in {d \in Handles : Live(d)}}
    /\ \A c \in Handles :
          Live(c) =>
              /\ id[c] < Len(entries) /\ entries[id[c] + 1] = Occupied(c)
              /\ RemoveRecv(entries, slabNext, id[c])[1]
              /\ Senders(RemoveRecv(entries, slabNext, id[c])[2]) =
                     Senders(entries) \ {c}

\* a clone made after a pull holds id 0, which the root held before it was
\* dropped, next to a live cursor with id 1
IdsConsistentWitness ==
    \E c, d \in Handles :
        /\ Live(c) /\ Live(d)
        /\ id[c] = 0 /\ start[c] > 0 /\ id[d] = 1

LazyPullAhead ==
    overlapped /\ peak = 2 /\ iterPos - highest = 2

TypeOK ==
    /\ iterPos \in 0..Len(source)
    /\ mutex \in Handles \cup {NoOne}
    /\ strong \in 0..MaxCursors
    /\ \A c \in Handles : Len(queue[c]) <= MaxLen
====
